---- MODULE Spec2Model ----
(***************************************************************************)
(* Model of the BMP180 driver of src/src/lib.rs: construction with the     *)
(* calibration read, the asynchronous acquisition cycle (update /          *)
(* raw_reading), the getters, and the fixed-point compensation arithmetic  *)
(* (calculate_b5, calculate_real_pressure) on 32-bit integers.             *)
(*                                                                         *)
(* A 32-bit word, signed or unsigned, is held as the signed integer with   *)
(* the same bit pattern, so `as u32` / `as i32` casts keep the value and   *)
(* the unsigned operations are written on bit patterns.  No intermediate   *)
(* of the model leaves the signed 32-bit range.                            *)
(***************************************************************************)
EXTENDS Integers, Sequences, FiniteSets, TLC

(***************************************************************************)
(* Register / command catalogue.                                           *)
(***************************************************************************)
BMP180_I2C_ADDR == 119
BMP180_REGISTER_CTL == 244
BMP180_CMD_TEMP == 46
BMP180_REGISTER_TEMP_MSB == 246
BMP180_CMD_PRESSURE == 52
BMP180_REGISTER_PRESSURE_MSB == 246
BMP180_REGISTER_AC1MSB == 170

\* length of the calibration buffer, [u8; 22]
CalibLen == 22
\* the fixed temperature conversion wait, Duration::from_millis(5)
TempDelayMs == 5

Modes == {"BMP180UltraLowPower", "BMP180Standard",
          "BMP180HighResolution", "BMP180UltraHighResolution"}

get_mode_value(m) ==
    CASE m = "BMP180UltraLowPower" -> 0
      [] m = "BMP180Standard" -> 1
      [] m = "BMP180HighResolution" -> 2
      [] m = "BMP180UltraHighResolution" -> 3

mode_delay(m) ==
    CASE m = "BMP180UltraLowPower" -> 5
      [] m = "BMP180Standard" -> 8
      [] m = "BMP180HighResolution" -> 14
      [] m = "BMP180UltraHighResolution" -> 26

(***************************************************************************)
(* 32-bit machine arithmetic.                                              *)
(***************************************************************************)
B8 == 16 * 16
B16 == B8 * B8
I32Max == (32768 * 65535) + 32767
I32Min == (-I32Max) - 1

RECURSIVE Pow2(_)
Pow2(n) == IF n = 0 THEN 1 ELSE 2 * Pow2(n - 1)

Lo16(a) == a % B16
Hi16(a) == (a \div B16) % B16
\* the signed value of the word with 16-bit halves h (high) and l (low)
FromLimbs(h, l) == IF h >= 32768 THEN ((h - B16) * B16) + l ELSE (h * B16) + l

\* full product of two 16-bit halves, as <<high half, low half>>
Mul16(x, y) ==
    LET xh == x \div B8
        xl == x % B8
        yh == y \div B8
        yl == y % B8
        mid == (xh * yl) + (xl * yh)
        t == ((mid % B8) * B8) + (xl * yl)
    IN  << (xh * yh) + (mid \div B8) + (t \div B16), t % B16 >>

wrapping_add(a, b) ==
    LET lo == Lo16(a) + Lo16(b)
        hi == Hi16(a) + Hi16(b) + (lo \div B16)
    IN  FromLimbs(hi % B16, lo % B16)

wrapping_sub(a, b) ==
    LET lo == Lo16(a) - Lo16(b)
        hi == (Hi16(a) - Hi16(b)) + (lo \div B16)
    IN  FromLimbs(hi % B16, lo % B16)

\* low 32 bits of the product; the same bits for i32 and for u32 operands
wrapping_mul(a, b) ==
    LET ll == Mul16(Lo16(a), Lo16(b))
        cross == (Mul16(Hi16(a), Lo16(b))[2] + Mul16(Lo16(a), Hi16(b))[2] + ll[1]) % B16
    IN  FromLimbs(cross, ll[2])

\* i32 `+`, `-`, `*` overflow (a panic when overflow checks are compiled in)
add_overflows(a, b) ==
    LET s == wrapping_add(a, b)
    IN  (a >= 0 /\ b >= 0 /\ s < 0) \/ (a < 0 /\ b < 0 /\ s >= 0)

sub_overflows(a, b) ==
    LET s == wrapping_sub(a, b)
    IN  (a >= 0 /\ b < 0 /\ s < 0) \/ (a < 0 /\ b >= 0 /\ s >= 0)

Abs(a) == IF a < 0 THEN -a ELSE a

mul_overflows(a, b) ==
    IF a = 0 \/ b = 0 THEN FALSE
    ELSE IF a = I32Min THEN b # 1
    ELSE IF b = I32Min THEN a # 1
    ELSE LET q == I32Max \div Abs(b)
             r == I32Max % Abs(b)
         IN  IF (a < 0) = (b < 0)
             THEN Abs(a) > q
             ELSE (IF r + 1 = Abs(b) THEN Abs(a) - 1 ELSE Abs(a)) > q

\* u32 `*` overflow: the true product of the two unsigned words is >= 2^32
umul_overflows(a, b) ==
    LET ll == Mul16(Lo16(a), Lo16(b))
        m1 == Mul16(Hi16(a), Lo16(b))
        m2 == Mul16(Lo16(a), Hi16(b))
    IN  \/ (Hi16(a) # 0 /\ Hi16(b) # 0)
        \/ m1[1] > 0
        \/ m2[1] > 0
        \/ m1[2] + m2[2] + ll[1] >= B16

\* i32 `>>` (arithmetic) and u32 `>>` (logical), 1 <= n <= 31
shr(a, n) == a \div Pow2(n)
lshr(a, n) ==
    IF a >= 0 THEN a \div Pow2(n)
    ELSE (((a + Pow2(30)) + Pow2(30)) \div Pow2(n)) + Pow2(31 - n)

\* `<<` by n <= 30: bits shifted out are dropped, with or without overflow checks
shl(a, n) == wrapping_mul(a, Pow2(n))
\* the shift changed the value (i32 reading of the word)
shl_loses(a, n) == mul_overflows(a, Pow2(n))

\* i32 `/`: truncation toward zero (b # 0, and not I32Min / -1)
TruncDivPos(a, b) == IF a >= 0 THEN a \div b ELSE (a + (b - 1)) \div b
idiv(a, b) ==
    IF b > 0 THEN TruncDivPos(a, b)
    ELSE IF b = I32Min THEN (IF a = I32Min THEN 1 ELSE 0)
    ELSE -TruncDivPos(a, -b)

\* unsigned comparison and u32 `/` on bit patterns, d # 0
ult(a, b) == IF (a < 0) = (b < 0) THEN a < b ELSE b < 0
udiv(n, d) ==
    IF d < 0 THEN (IF ult(n, d) THEN 0 ELSE 1)
    ELSE IF n >= 0 THEN n \div d
    ELSE LET h == lshr(n, 1)
             q1 == h \div d
             r1 == h % d
             c == IF r1 >= (d - r1) - (n % 2) THEN 1 ELSE 0
         IN  wrapping_add(wrapping_mul(q1, 2), c)

(***************************************************************************)
(* Big-endian field decoding and the calibration block.                    *)
(***************************************************************************)
read_u16(buf, i) == (buf[i] * B8) + buf[i + 1]
read_i16(buf, i) ==
    LET v == read_u16(buf, i) IN IF v >= 32768 THEN v - B16 ELSE v

\* the struct literal of BMP180CalibrationCoefficients::new, buf indexed from 1
ParseCoefficients(buf) ==
    [ac1 |-> read_i16(buf, 1),  ac2 |-> read_i16(buf, 3),  ac3 |-> read_i16(buf, 5),
     ac4 |-> read_u16(buf, 7),  ac5 |-> read_u16(buf, 9),  ac6 |-> read_u16(buf, 11),
     b1  |-> read_i16(buf, 13), b2  |-> read_i16(buf, 15), mb  |-> read_i16(buf, 17),
     mc  |-> read_i16(buf, 19), md  |-> read_i16(buf, 21)]

(***************************************************************************)
(* Compensation.  Each function yields its value as the wrapping 32-bit    *)
(* computation gives it, with                                              *)
(*   dz   a division by zero was reached (a panic in every build),         *)
(*   ovf  an i32/u32 `+`, `-`, `*` or pow overflowed (a panic when         *)
(*        overflow checks are compiled in, a wrapped value otherwise),     *)
(*   lost a `<<` dropped bits (never checked).                             *)
(***************************************************************************)
\* let x1 = (((raw_temp as i32) - (self.ac6 as i32)) * (self.ac5 as i32)) >> 15;
b5_x1(self, raw_temp) ==
    [x1 |-> shr(wrapping_mul(raw_temp - self.ac6, self.ac5), 15),
     ovf |-> mul_overflows(raw_temp - self.ac6, self.ac5)]
\* mutant: the division rounds toward minus infinity instead of toward zero
b5_x2_floor(self, s) ==
    [v |-> IF s.x1 + self.md = 0 THEN 0
           ELSE s.x1 + (shl(self.mc, 11) \div (s.x1 + self.md)),
     dz |-> s.x1 + self.md = 0,
     ovf |-> s.ovf,
     lost |-> FALSE]
\* let x2 = ((self.mc as i32) << 11) / (x1 + (self.md as i32));  x1 + x2
b5_x2(self, s) ==
    [v |-> IF s.x1 + self.md = 0 THEN 0
           ELSE s.x1 + idiv(shl(self.mc, 11), s.x1 + self.md),
     dz |-> s.x1 + self.md = 0,
     ovf |-> s.ovf,
     lost |-> FALSE]
calculate_b5(self, raw_temp) == b5_x2(self, b5_x1(self, raw_temp))

\* calculate_real_pressure, statement by statement on the record s of its locals
\* (x1, x2, x3 are reassigned as in the source; ux3 is _x3, t is _t)
rp_locals(padc, b5, coeff, oss) ==
    [padc |-> padc, b5 |-> b5, coeff |-> coeff, mv |-> get_mode_value(oss),
     b6 |-> 0, t |-> 0, x1 |-> 0, x2 |-> 0, x3 |-> 0, b3 |-> 0, ux3 |-> 0,
     b4 |-> 0, b7 |-> 0, p |-> 0, v |-> 0,
     dz |-> FALSE, ovf |-> FALSE, lost |-> FALSE]

\* let b6: i32 = b5 - 4000i32;
rp_b6(s) ==
    [s EXCEPT !.b6 = wrapping_sub(s.b5, 4000),
              !.ovf = @ \/ sub_overflows(s.b5, 4000)]
\* let _t = (b6 as i32).pow(2) >> 12;
rp_t(s) ==
    [s EXCEPT !.t = shr(wrapping_mul(s.b6, s.b6), 12),
              !.ovf = @ \/ mul_overflows(s.b6, s.b6)]
\* let mut x1: i32 = (coeff.b2 as i32 * _t) >> 11;
rp_x1(s) ==
    [s EXCEPT !.x1 = shr(wrapping_mul(s.coeff.b2, s.t), 11),
              !.ovf = @ \/ mul_overflows(s.coeff.b2, s.t)]
\* let mut x2: i32 = (coeff.ac2 as i32 * b6) >> 11;
rp_x2(s) ==
    [s EXCEPT !.x2 = shr(wrapping_mul(s.coeff.ac2, s.b6), 11),
              !.ovf = @ \/ mul_overflows(s.coeff.ac2, s.b6)]
\* let x3: u32 = (x1 + x2) as u32;
rp_x3(s) ==
    [s EXCEPT !.x3 = wrapping_add(s.x1, s.x2),
              !.ovf = @ \/ add_overflows(s.x1, s.x2)]
\* let b3: i32 = (((coeff.ac1 as i32 * 4 + (x3 as i32)) << oss.get_mode_value()) + 2) / 4;
rp_b3_sum(s) ==
    [s EXCEPT !.b3 = wrapping_add(s.coeff.ac1 * 4, s.x3),
              !.ovf = @ \/ add_overflows(s.coeff.ac1 * 4, s.x3)]
rp_b3_shift(s) ==
    [s EXCEPT !.b3 = shl(s.b3, s.mv),
              !.lost = @ \/ shl_loses(s.b3, s.mv)]
rp_b3(s) ==
    [s EXCEPT !.b3 = idiv(wrapping_add(s.b3, 2), 4),
              !.ovf = @ \/ add_overflows(s.b3, 2)]
\* x1 = (coeff.ac3 as i32 * b6) >> 13;
rp_x1b(s) ==
    [s EXCEPT !.x1 = shr(wrapping_mul(s.coeff.ac3, s.b6), 13),
              !.ovf = @ \/ mul_overflows(s.coeff.ac3, s.b6)]
\* x2 = (coeff.b1 as i32 * _t) >> 16;
rp_x2b(s) ==
    [s EXCEPT !.x2 = shr(wrapping_mul(s.coeff.b1, s.t), 16),
              !.ovf = @ \/ mul_overflows(s.coeff.b1, s.t)]
\* let x3: i32 = (x1 + x2 + 2) >> 2;
rp_x3b_sum(s) ==
    [s EXCEPT !.x3 = wrapping_add(s.x1, s.x2),
              !.ovf = @ \/ add_overflows(s.x1, s.x2)]
rp_x3b(s) ==
    [s EXCEPT !.x3 = shr(wrapping_add(s.x3, 2), 2),
              !.ovf = @ \/ add_overflows(s.x3, 2)]
\* let _x3: u32 = (x3 + 32768i32) as u32;
rp_ux3(s) ==
    [s EXCEPT !.ux3 = wrapping_add(s.x3, 32768),
              !.ovf = @ \/ add_overflows(s.x3, 32768)]
\* let b4: u32 = (coeff.ac4 as u32 * _x3) >> 15;
rp_b4(s) ==
    [s EXCEPT !.b4 = lshr(wrapping_mul(s.coeff.ac4, s.ux3), 15),
              !.ovf = @ \/ umul_overflows(s.coeff.ac4, s.ux3)]
\* let b7: u32 = (padc - b3) as u32 * (50000 >> oss.get_mode_value());
rp_b7_diff(s) ==
    [s EXCEPT !.b7 = wrapping_sub(s.padc, s.b3),
              !.ovf = @ \/ sub_overflows(s.padc, s.b3)]
rp_b7(s) ==
    [s EXCEPT !.b7 = wrapping_mul(s.b7, shr(50000, s.mv)),
              !.ovf = @ \/ umul_overflows(s.b7, shr(50000, s.mv))]
\* let p = if b7 < 0x80000000 { (b7 << 1) / b4 } else { (b7 / b4) << 1 } as i32;
rp_p(s) ==
    IF s.b4 = 0 THEN [s EXCEPT !.dz = TRUE]
    ELSE IF s.b7 >= 0 THEN [s EXCEPT !.p = udiv(shl(s.b7, 1), s.b4)]
    ELSE [s EXCEPT !.p = shl(udiv(s.b7, s.b4), 1),
                   !.lost = @ \/ udiv(s.b7, s.b4) < 0]
\* x1 = (p >> 8).pow(2);
rp_x1c(s) ==
    [s EXCEPT !.x1 = wrapping_mul(shr(s.p, 8), shr(s.p, 8)),
              !.ovf = @ \/ (~s.dz /\ mul_overflows(shr(s.p, 8), shr(s.p, 8)))]
\* x1 = (x1 * 3038) >> 16;
rp_x1d(s) ==
    [s EXCEPT !.x1 = shr(wrapping_mul(s.x1, 3038), 16),
              !.ovf = @ \/ (~s.dz /\ mul_overflows(s.x1, 3038))]
\* x2 = (-7357 * (p)) >> 16;
rp_x2d(s) ==
    [s EXCEPT !.x2 = shr(wrapping_mul(-7357, s.p), 16),
              !.ovf = @ \/ (~s.dz /\ mul_overflows(-7357, s.p))]
\* ((p) + ((x1 + x2 + 3791) >> 4)) as f32
rp_corr_sum(s) ==
    [s EXCEPT !.x3 = wrapping_add(s.x1, s.x2),
              !.ovf = @ \/ (~s.dz /\ add_overflows(s.x1, s.x2))]
\* mutant: `/ 16` in place of the arithmetic `>> 4`
rp_corr_div(s) ==
    [s EXCEPT !.x3 = idiv(wrapping_add(s.x3, 3791), 16),
              !.ovf = @ \/ (~s.dz /\ add_overflows(s.x3, 3791))]
rp_corr(s) ==
    [s EXCEPT !.x3 = shr(wrapping_add(s.x3, 3791), 4),
              !.ovf = @ \/ (~s.dz /\ add_overflows(s.x3, 3791))]
rp_result(s) ==
    [s EXCEPT !.v = wrapping_add(s.p, s.x3),
              !.ovf = @ \/ (~s.dz /\ add_overflows(s.p, s.x3))]

calculate_real_pressure(padc, b5, coeff, oss) ==
    rp_result(rp_corr(rp_corr_sum(rp_x2d(rp_x1d(rp_x1c(rp_p(rp_b7(rp_b7_diff(
    rp_b4(rp_ux3(rp_x3b(rp_x3b_sum(rp_x2b(rp_x1b(
    rp_b3(rp_b3_shift(rp_b3_sum(rp_x3(rp_x2(rp_x1(rp_t(rp_b6(
    rp_locals(padc, b5, coeff, oss))))))))))))))))))))))))

(***************************************************************************)
(* Values returned to the caller.  A float result is held as the exact     *)
(* quotient num / den of the integer the code casts to f32 and the         *)
(* constant it divides by; the f32 rounding itself is not modelled.        *)
(***************************************************************************)
None == [tag |-> "None"]
Some(n, d) == [tag |-> "Some", num |-> n, den |-> d]
Panic == [tag |-> "Panic"]
Ok == [tag |-> "Ok"]
\* anyhow!("..."): the error value is the message alone
Err(msg) == [tag |-> "Err", msg |-> msg]

NoReading == [tag |-> "None"]
SomeReading(padc, t) == [tag |-> "Some", padc |-> padc, tadc |-> t]

VARIABLES
    phase,              \* "start": no handle yet; "ready": handle built; "aborted": panicked
    overflow_checks,    \* the build compiles integer overflow checks in
    calib,              \* which of the two calibration bus operations succeeded
    coeff,              \* self.coeff
    pressure_precision, \* self.pressure_precision
    last_reading,       \* self.last_reading
    pc,                 \* where the update future stands: "idle", "sleep1", "sleep2"
    tadc,               \* raw_reading's local tadc, alive across the second await
    cyc,                \* number of update calls made so far
    wire,               \* bus operations and elapsed delays of update number cyc
    open,               \* updates that triggered a conversion and neither finished nor failed
    last_success,       \* number of the latest update that returned Ok, 0 if none
    last_call           \* the latest call on the handle and what it returned

vars == <<phase, overflow_checks, calib, coeff, pressure_precision, last_reading,
          pc, tadc, cyc, wire, open, last_success, last_call>>

(***************************************************************************)
(* Bounds and the environment: the transport's outcomes and the device.    *)
(***************************************************************************)
\* update calls explored per run
MaxUpdates == 2
\* bytes a failing calibration read has stored before it fails, when not 0
PartialFill == 8

\* transport errors, the values of the bus type's Error
Errors == {"NoAcknowledge", "ArbitrationLoss"}
Results == {"ok"} \cup Errors

BE16(v) == << (v % B16) \div B8, v % B8 >>
Image(c) == BE16(c.ac1) \o BE16(c.ac2) \o BE16(c.ac3) \o BE16(c.ac4) \o BE16(c.ac5)
            \o BE16(c.ac6) \o BE16(c.b1) \o BE16(c.b2) \o BE16(c.mb) \o BE16(c.mc)
            \o BE16(c.md)

\* the calibration example of the BMP180 datasheet
DatasheetCoefficients ==
    [ac1 |-> 408, ac2 |-> -72, ac3 |-> -14383, ac4 |-> 32741, ac5 |-> 32757,
     ac6 |-> 23153, b1 |-> 6190, b2 |-> 4, mb |-> -32768, mc |-> -8711, md |-> 2868]
\* a block at the ends of the field types
ExtremeCoefficients ==
    [ac1 |-> 32767, ac2 |-> -32768, ac3 |-> -32768, ac4 |-> 65535, ac5 |-> 65535,
     ac6 |-> 65535, b1 |-> 32767, b2 |-> 32767, mb |-> -32768, mc |-> -32768, md |-> 32767]

\* calibration blocks a device may hold
Eeproms == {Image(DatasheetCoefficients), Image(ExtremeCoefficients)}
\* what a block read returns when the register pointer was never set
StrayBlocks == {[i \in 1..CalibLen |-> 0], [i \in 1..CalibLen |-> 255]}

\* the data registers after the conversions of update number c
TempSamples == << <<108, 250>>, <<128, 0>>, <<127, 255>> >>
PressureSamples == << <<93, 35, 0>>, <<255, 255, 255>>, <<0, 0, 1>> >>
DeviceTemp(c) == TempSamples[((c - 1) % Len(TempSamples)) + 1]
DevicePressure(c) == PressureSamples[((c - 1) % Len(PressureSamples)) + 1]

(***************************************************************************)
(* The getters.                                                            *)
(***************************************************************************)
Panics(r) == r.dz \/ (overflow_checks /\ r.ovf)

\* let t = (b5 + 8) >> 4; Some((t as f32) / 10_f32)
temperature_of(b5) ==
    IF Panics(b5) \/ (overflow_checks /\ add_overflows(b5.v, 8)) THEN Panic
    ELSE Some(shr(wrapping_add(b5.v, 8), 4), 10)
\* mutant: a zero temperature stands in for the missing reading
temperature_celsius_default(self) ==
    IF self.last_reading.tag = "Some"
    THEN temperature_of(calculate_b5(self.coeff, self.last_reading.tadc))
    ELSE Some(0, 10)
temperature_celsius(self) ==
    IF self.last_reading.tag = "Some"
    THEN temperature_of(calculate_b5(self.coeff, self.last_reading.tadc))
    ELSE None

\* Some(real_pressure as f32)
pressure_of(real_pressure) ==
    IF Panics(real_pressure) THEN Panic ELSE Some(real_pressure.v, 1)
pressure_with(self, b5) ==
    IF Panics(b5) THEN Panic
    ELSE pressure_of(calculate_real_pressure(self.last_reading.padc, b5.v,
                                             self.coeff, self.pressure_precision))
pressure_pa(self) ==
    IF self.last_reading.tag = "Some"
    THEN pressure_with(self, calculate_b5(self.coeff, self.last_reading.tadc))
    ELSE None

\* let p = self.pressure_pa()?; Some(p / k)
scaled(p, k) == IF p.tag = "Some" THEN Some(p.num, k) ELSE p
pressure_hpa(self) == scaled(pressure_pa(self), 100)
pressure_kpa(self) == scaled(pressure_pa(self), 1000)

Getters == {"temperature_celsius", "pressure_pa", "pressure_hpa", "pressure_kpa"}
Get(fn, self) ==
    CASE fn = "temperature_celsius" -> temperature_celsius(self)
      [] fn = "pressure_pa" -> pressure_pa(self)
      [] fn = "pressure_hpa" -> pressure_hpa(self)
      [] fn = "pressure_kpa" -> pressure_kpa(self)

Self == [coeff |-> coeff, pressure_precision |-> pressure_precision,
         last_reading |-> last_reading]

(***************************************************************************)
(* Construction.                                                           *)
(***************************************************************************)
Init ==
    /\ phase = "start"
    /\ overflow_checks \in BOOLEAN
    /\ calib = [write |-> FALSE, read |-> FALSE]
    /\ coeff = ParseCoefficients([i \in 1..CalibLen |-> 0])
    /\ pressure_precision = "BMP180UltraLowPower"
    /\ last_reading = NoReading
    /\ pc = "idle"
    /\ tadc = 0
    /\ cyc = 0
    /\ wire = <<>>
    /\ open = {}
    /\ last_success = 0
    /\ last_call = [fn |-> "none", out |-> None]

\* buf after `let _ = i2c.write(..); let _ = i2c.read(.., &mut buf);`: both results
\* are discarded; block is what the device would send, n the bytes stored
CalibrationBuffer(block, n) == [i \in 1..CalibLen |-> IF i <= n THEN block[i] ELSE 0]

\* BMP180BarometerThermometer::new with BMP180CalibrationCoefficients::new
New ==
    /\ phase = "start"
    /\ \E dev \in Eeproms, stray \in StrayBlocks, mode \in Modes,
          w \in Results, r \in Results, n \in {0, PartialFill} :
          LET block == IF w = "ok" THEN dev ELSE stray
              buf == CalibrationBuffer(block, IF r = "ok" THEN CalibLen ELSE n)
          IN  /\ coeff' = ParseCoefficients(buf)
              /\ calib' = [write |-> w = "ok", read |-> r = "ok"]
              /\ pressure_precision' = mode
    /\ phase' = "ready"
    /\ last_reading' = NoReading
    /\ last_call' = [fn |-> "new", out |-> Ok]
    /\ UNCHANGED <<overflow_checks, pc, tadc, cyc, wire, open, last_success>>

(***************************************************************************)
(* The acquisition cycle: update awaiting raw_reading.  The future runs    *)
(* from one await to the next without interruption, so there is one action *)
(* per stretch; the caller may drop the future while it is suspended.      *)
(***************************************************************************)
WriteEv(bytes, res) ==
    [op |-> "write", addr |-> BMP180_I2C_ADDR, bytes |-> bytes, res |-> res]
WriteReadEv(reg, n, res) ==
    [op |-> "write_read", addr |-> BMP180_I2C_ADDR, bytes |-> <<reg>>, n |-> n, res |-> res]
SleepEv(ms) == [op |-> "sleep", ms |-> ms]

temp_trigger == <<BMP180_REGISTER_CTL, BMP180_CMD_TEMP>>
pressure_trigger(mode) ==
    <<BMP180_REGISTER_CTL, BMP180_CMD_PRESSURE + (get_mode_value(mode) * 64)>>
temp_delay == TempDelayMs
\* mutant: the pressure conversion is given the temperature conversion's wait
pressure_delay_fixed(mode) == temp_delay
pressure_delay(mode) == mode_delay(mode)

\* .map_err(|_| anyhow!("..")): the transport's error value e is discarded
write_error(e) == Err("write error")
write_read_error(e) == Err("write read error")

assemble_padc(p_buf, offset) ==
    shr((p_buf[1] * B16) + (p_buf[2] * B8) + p_buf[3], 8 - offset)

\* mutant: a failed cycle clears the stored reading
update_last_reading_clears(old, result) ==
    IF result.tag = "Ok" THEN result.reading ELSE NoReading
\* update: `let reading = self.raw_reading(..).await?; self.last_reading = Some(reading);`
update_last_reading(old, result) ==
    IF result.tag = "Ok" THEN result.reading ELSE old

\* raw_reading returns Err(err) after issuing the operations ops: update returns it
Fail(ops, err) ==
    /\ wire' = ops
    /\ pc' = "idle"
    /\ tadc' = 0
    /\ open' = open \ {cyc'}
    /\ last_reading' = update_last_reading(last_reading, err)
    /\ last_call' = [fn |-> "update", out |-> err]
    /\ UNCHANGED last_success

\* raw_reading suspends in a sleep after issuing the operations ops
Suspend(ops, at, t) ==
    /\ wire' = ops
    /\ pc' = at
    /\ tadc' = t
    /\ open' = open \cup {cyc'}
    /\ last_call' = [fn |-> "update", out |-> [tag |-> "Pending"]]
    /\ UNCHANGED <<last_reading, last_success>>

\* update is called: the temperature trigger write, then the 5 ms sleep begins
UpdateStart ==
    /\ phase = "ready"
    /\ pc = "idle"
    /\ cyc < MaxUpdates
    /\ cyc' = cyc + 1
    /\ \E res \in Results :
          LET ops == <<WriteEv(temp_trigger, res)>>
          IN  IF res = "ok" THEN Suspend(ops, "sleep1", 0)
              ELSE Fail(ops, write_error(res))
    /\ UNCHANGED <<phase, overflow_checks, calib, coeff, pressure_precision>>

\* the 5 ms have elapsed: temperature read, pressure trigger write, second sleep begins
UpdateTempReady ==
    /\ pc = "sleep1"
    /\ cyc' = cyc
    /\ \E r1 \in Results, r2 \in Results :
          LET ops1 == wire \o <<SleepEv(temp_delay),
                                WriteReadEv(BMP180_REGISTER_TEMP_MSB, 2, r1)>>
              ops2 == ops1 \o <<WriteEv(pressure_trigger(pressure_precision), r2)>>
          IN  IF r1 # "ok" THEN Fail(ops1, write_read_error(r1))
              ELSE IF r2 # "ok" THEN Fail(ops2, write_error(r2))
              ELSE Suspend(ops2, "sleep2", read_i16(DeviceTemp(cyc), 1))
    /\ UNCHANGED <<phase, overflow_checks, calib, coeff, pressure_precision>>

\* the mode's delay has elapsed: pressure read; update stores the reading
UpdatePressureReady ==
    /\ pc = "sleep2"
    /\ cyc' = cyc
    /\ \E r \in Results :
          LET ops == wire \o <<SleepEv(pressure_delay(pressure_precision)),
                               WriteReadEv(BMP180_REGISTER_PRESSURE_MSB, 3, r)>>
              padc == assemble_padc(DevicePressure(cyc), get_mode_value(pressure_precision))
              done == [tag |-> "Ok", reading |-> SomeReading(padc, tadc)]
          IN  IF r # "ok" THEN Fail(ops, write_read_error(r))
              ELSE /\ wire' = ops
                   /\ pc' = "idle"
                   /\ tadc' = 0
                   /\ open' = open \ {cyc}
                   /\ last_reading' = update_last_reading(last_reading, done)
                   /\ last_success' = cyc
                   /\ last_call' = [fn |-> "update", out |-> Ok]
    /\ UNCHANGED <<phase, overflow_checks, calib, coeff, pressure_precision>>

\* the caller drops the suspended future (a timeout, a select!): nothing of it runs again
DropUpdate ==
    /\ pc \in {"sleep1", "sleep2"}
    /\ pc' = "idle"
    /\ tadc' = 0
    /\ last_call' = [fn |-> "update", out |-> [tag |-> "Dropped"]]
    /\ UNCHANGED <<phase, overflow_checks, calib, coeff, pressure_precision, last_reading,
                   cyc, wire, open, last_success>>

\* a getter is called; a panic ends the program
CallGetter ==
    /\ phase = "ready"
    /\ pc = "idle"
    /\ \E fn \in Getters :
          /\ last_call' = [fn |-> fn, out |-> Get(fn, Self)]
          /\ phase' = IF last_call'.out = Panic THEN "aborted" ELSE phase
    /\ UNCHANGED <<overflow_checks, calib, coeff, pressure_precision, last_reading,
                   pc, tadc, cyc, wire, open, last_success>>

Next ==
    \/ New
    \/ UpdateStart
    \/ UpdateTempReady
    \/ UpdatePressureReady
    \/ DropUpdate
    \/ CallGetter

Spec == Init /\ [][Next]_vars

(***************************************************************************)
(* The compensation functions on their own: a handle holding any of the    *)
(* sampled coefficient sets, modes and raw readings, and the calls that    *)
(* evaluate them.                                                          *)
(***************************************************************************)
ZeroCoefficients == ParseCoefficients([i \in 1..CalibLen |-> 0])
CoeffSamples ==
    {DatasheetCoefficients, ExtremeCoefficients, ZeroCoefficients,
     [DatasheetCoefficients EXCEPT !.ac4 = 0],
     [DatasheetCoefficients EXCEPT !.md = -4743]}
TadcSamples == {read_i16(TempSamples[i], 1) : i \in 1..Len(TempSamples)} \cup {0}
PadcSamples(mode) ==
    {assemble_padc(PressureSamples[i], get_mode_value(mode)) : i \in 1..Len(PressureSamples)}

InitComp ==
    /\ phase = "ready"
    /\ overflow_checks \in BOOLEAN
    /\ calib = [write |-> TRUE, read |-> TRUE]
    /\ coeff \in CoeffSamples
    /\ pressure_precision \in Modes
    /\ \E t \in TadcSamples, p \in PadcSamples(pressure_precision) :
          last_reading = SomeReading(p, t)
    /\ pc = "idle"
    /\ tadc = 0
    /\ cyc = 0
    /\ wire = <<>>
    /\ open = {}
    /\ last_success = 0
    /\ last_call = [fn |-> "none", out |-> None]

b5_outcome(b5) == IF Panics(b5) THEN Panic ELSE Some(b5.v, 1)

\* self.coeff.calculate_b5(reading.tadc), as the getters call it
CallCalculateB5 ==
    /\ phase = "ready"
    /\ pc = "idle"
    /\ last_reading.tag = "Some"
    /\ last_call' = [fn |-> "calculate_b5",
                     out |-> b5_outcome(calculate_b5(coeff, last_reading.tadc))]
    /\ phase' = IF last_call'.out = Panic THEN "aborted" ELSE phase
    /\ UNCHANGED <<overflow_checks, calib, coeff, pressure_precision, last_reading,
                   pc, tadc, cyc, wire, open, last_success>>

NextComp ==
    \/ CallCalculateB5
    \/ CallGetter

SpecComp == InitComp /\ [][NextComp]_vars

(***************************************************************************)
(* Properties.                                                             *)
(***************************************************************************)
DatasheetCase ==
    /\ coeff = DatasheetCoefficients
    /\ last_reading.tag = "Some"
    /\ last_reading.tadc = 27898

\* C1 as stated: for the datasheet coefficients and tadc = 27898, calculate_b5
\* returns exactly 2399.
C1_B5Is2399 ==
    (DatasheetCase /\ last_call.fn = "calculate_b5") => last_call.out = Some(2399, 1)

\* C1 amended: for the datasheet coefficients and tadc = 27898, calculate_b5
\* returns exactly 2400 (x1 = 4743, x2 = -17840128 / 7611 truncated toward zero = -2343).
C1_B5Is2400 ==
    (DatasheetCase /\ last_call.fn = "calculate_b5") => last_call.out = Some(2400, 1)

C1_Witness == DatasheetCase /\ last_call.fn = "calculate_b5"

DatasheetSample ==
    /\ DatasheetCase
    /\ last_reading.padc = 23843
    /\ pressure_precision = "BMP180UltraLowPower"

\* C2: for the datasheet coefficients, the reading (27898, 23843) and UltraLowPower,
\* temperature_celsius yields 150 tenths of a degree and pressure_pa yields 69964 Pa.
C2_DatasheetResults ==
    DatasheetSample =>
        /\ last_call.fn = "temperature_celsius" => last_call.out = Some(150, 10)
        /\ last_call.fn = "pressure_pa" => last_call.out = Some(69964, 1)

C2_Witness == DatasheetSample /\ last_call.fn = "pressure_pa"

\* C3: while no update has succeeded on the handle, every getter returns None, and a
\* getter has returned a numeric value only after some update succeeded.
C3_NoReadingBeforeSuccess ==
    /\ (phase = "ready" /\ last_success = 0) => \A fn \in Getters : Get(fn, Self) = None
    /\ (last_call.fn \in Getters /\ last_call.out.tag = "Some") => last_success # 0

C3_Witness ==
    /\ last_call.fn \in Getters
    /\ last_call.out = None
    /\ cyc > 0
    /\ last_success = 0

\* C4: a handle exists only if both calibration bus operations succeeded.
C4_NoHandleOnTransportFailure ==
    phase = "ready" => (calib.write /\ calib.read)

ZeroDivisorB5(self) ==
    self.last_reading.tag = "Some" /\ calculate_b5(self.coeff, self.last_reading.tadc).dz
ZeroDivisorB4(self) ==
    /\ self.last_reading.tag = "Some"
    /\ calculate_real_pressure(self.last_reading.padc,
                               calculate_b5(self.coeff, self.last_reading.tadc).v,
                               self.coeff, self.pressure_precision).dz

\* C5: when x1 + md = 0 or b4 = 0, temperature_celsius / pressure_pa return a distinct
\* domain error, and the program goes on with a usable handle.
C5_DomainErrorReported ==
    (\/ last_call.fn \in {"temperature_celsius", "pressure_pa"} /\ ZeroDivisorB5(Self)
     \/ last_call.fn = "pressure_pa" /\ ZeroDivisorB4(Self))
    => (last_call.out = [tag |-> "DomainError"] /\ phase = "ready")

\* C6: an update that fails because a bus operation failed with e returns the
\* transport-error variant carrying that e.
C6_TransportErrorPropagated ==
    (last_call.fn = "update" /\ last_call.out.tag = "Err")
    => last_call.out = [tag |-> "Err", kind |-> "I2C", e |-> wire[Len(wire)].res]

ExpectedReading(c) ==
    IF c = 0 THEN NoReading
    ELSE SomeReading(assemble_padc(DevicePressure(c), get_mode_value(pressure_precision)),
                     read_i16(DeviceTemp(c), 1))

\* C7: the stored reading is None while no update has succeeded and otherwise the
\* complete (tadc, padc) pair of the latest successful update; a failed bus operation
\* is the last operation of its cycle and the update then returns the error.
C7_ReadingOfLastSuccess ==
    /\ last_reading = ExpectedReading(last_success)
    /\ \A i \in 1..(Len(wire) - 1) : wire[i].op = "sleep" \/ wire[i].res = "ok"
    /\ (wire # <<>> /\ wire[Len(wire)].res # "ok")
           => (pc = "idle" /\ last_success # cyc /\ cyc \notin open)

C7_Witness ==
    /\ last_call.fn = "update"
    /\ last_call.out.tag = "Err"
    /\ last_success > 0
    /\ cyc > last_success

ExpectedShift ==
    CASE pressure_precision = "BMP180UltraLowPower" -> 0
      [] pressure_precision = "BMP180Standard" -> 1
      [] pressure_precision = "BMP180HighResolution" -> 2
      [] pressure_precision = "BMP180UltraHighResolution" -> 3
ExpectedDelay ==
    CASE ExpectedShift = 0 -> 5
      [] ExpectedShift = 1 -> 8
      [] ExpectedShift = 2 -> 14
      [] ExpectedShift = 3 -> 26
ExpectedCycle ==
    << [op |-> "write", addr |-> 119, bytes |-> <<244, 46>>, res |-> "ok"],
       [op |-> "sleep", ms |-> 5],
       [op |-> "write_read", addr |-> 119, bytes |-> <<246>>, n |-> 2, res |-> "ok"],
       [op |-> "write", addr |-> 119, bytes |-> <<244, 52 + (ExpectedShift * 64)>>,
        res |-> "ok"],
       [op |-> "sleep", ms |-> ExpectedDelay],
       [op |-> "write_read", addr |-> 119, bytes |-> <<246>>, n |-> 3, res |-> "ok"] >>
Succeeded(ev) == IF ev.op = "sleep" THEN ev ELSE [ev EXCEPT !.res = "ok"]

\* C8: the operations of a cycle are, in this order and with nothing in between, the
\* write of 0x2E to 0xF4, 5 ms, the 2-byte read of 0xF6, the write of
\* 0x34 + (shift << 6) to 0xF4, the mode's delay, the 3-byte read of 0xF6; a cycle
\* that returns Ok has performed all six.
C8_CycleOrder ==
    /\ Len(wire) <= Len(ExpectedCycle)
    /\ \A i \in 1..Len(wire) : Succeeded(wire[i]) = ExpectedCycle[i]
    /\ (last_call.fn = "update" /\ last_call.out = Ok) => wire = ExpectedCycle
    /\ pc = "sleep1" => Len(wire) = 1
    /\ pc = "sleep2" => Len(wire) = 4

C8_Witness ==
    /\ last_call.fn = "update"
    /\ last_call.out = Ok
    /\ pressure_precision = "BMP180UltraHighResolution"

\* C9: no update issues a bus operation while another update of the handle has
\* triggered a conversion and has neither finished nor failed, an abandoned one included.
C9_NoInterleaving == open \subseteq {cyc}

Overflowed(r) == r.ovf \/ r.lost
OverflowsAfterB5(self, b5) ==
    \/ Overflowed(b5)
    \/ Overflowed(calculate_real_pressure(self.last_reading.padc, b5.v,
                                          self.coeff, self.pressure_precision))

\* C10: with non-zero divisors, no step of calculate_b5 or calculate_real_pressure
\* overflows its 32-bit type, for any coefficients, mode and raw reading.
C10_NoOverflow ==
    (/\ last_call.fn = "pressure_pa"
     /\ ~ZeroDivisorB5(Self)
     /\ ~ZeroDivisorB4(Self))
    => ~OverflowsAfterB5(Self, calculate_b5(coeff, last_reading.tadc))

====
